---- MODULE Spec2Model ----
(***************************************************************************)
(* State-machine model of GeneralPreferenceModelTrainer                    *)
(* (src/openrlhf/trainer/gpm_trainer.py) as driven by train()              *)
(* (src/openrlhf/cli/train_gpm.py).                                        *)
(*                                                                         *)
(* Floating point metric values are modelled in thousandths (1000 = 1.0);  *)
(* the collaborators (model, losses, strategy, dataloaders) are modelled   *)
(* by the calls the trainer makes on them and by the outcomes they can     *)
(* hand back.                                                              *)
(***************************************************************************)
EXTENDS Integers, Sequences, FiniteSets, TLC

(* ------------------------------ bounds -------------------------------- *)
MaxDim == 4
MaxBatch == 2
MaxAccum == 2
MaxStepsPerEpoch == 2
MaxLen == 3
MaxEpochs == 2
MaxConsumed == 4
MaxInterval == 2
MaxEvalLen == 1

(* float("inf"), the value fit stores in args.save_steps for -1 *)
Inf == 1000000

LossKinds == {"PairWiseLoss", "GeneralPreferenceLoss",
              "HighDimGeneralPreferenceLoss", "HighDimGeneralPreferenceMoELoss"}

SamplerKinds == {"GroupDistributedSampler", "DistributedSampler"}

(* metric triples (thousandths) one forward/loss computation can return *)
Obs(l, a, p) == [loss |-> l, acc |-> a, prob |-> p]

ObsLow == Obs(2000, 0, 400)

ObsHigh == Obs(1000, 1000, 600)

(* --ptx_loss_coef: its default 0.1 and the values tried, in thousandths *)
PtxLossCoefDefault == 100

Coefs == {-500, 0, 250}

(* values of the auxiliary loss, in thousandths *)
PtxLosses == {0, 800}

ZeroLogs ==
  [loss |-> 0, loss_mean |-> 0, acc |-> 0, acc_mean |-> 0, probs |-> 0, prob_mean |-> 0]

(* what one pass over a batch hands to the model and to the loss: whether      *)
(* return_output is requested, whether a prompt hidden state is passed as the *)
(* gating input and at which offset from size(1) - chosen_response_len it is  *)
(* gathered, and whether the margin argument is a tensor or None              *)
NoFeeds == [return_output |-> FALSE, hidden |-> FALSE, offset |-> 0, margin |-> "None"]

(* return value of a call that returned nothing *)
NoReturn == [has_value |-> FALSE, value |-> 0]

(* record of one iteration of the step loop: the collaborator calls it made   *)
(* (forwards counts concatenated_forward calls), the mode the model was in,   *)
(* and what the evaluate call of its hook did                                 *)
NoEvent ==
  [micro |-> FALSE, backward |-> 0, optimizer_step |-> 0, hook |-> FALSE,
   global_step |-> 0, all_reduce |-> FALSE, evaluate |-> FALSE,
   save_ckpt |-> FALSE, tag |-> "", client_states |-> [consumed_samples |-> 0],
   ema_updates |-> 0, forwards |-> 0,
   train_mode |-> "unset", fit_feeds |-> NoFeeds,
   eval_batches |-> 0, eval_mode |-> "none", eval_feeds |-> NoFeeds,
   eval_losses |-> <<>>, eval_return |-> NoReturn, wandb_logs |-> 0,
   calls |-> <<>>, preference_loss |-> 0, ptx_forwards |-> 0, ptx_loss |-> 0,
   loss |-> 0]

VARIABLES
  pc,                       \* position of the program: new / constructed / ... / done / crashed
  error,                    \* exception that ended the program ("none" while it runs)
  is_general_preference,    \* __init__ argument
  value_head_dim,           \* __init__ argument
  add_prompt_head,          \* args.add_prompt_head
  packing_samples,          \* args.packing_samples (self.packing_samples after __init__)
  args_add_pretrain_loss,   \* args.add_pretrain_loss
  ptx_loss_coef,            \* args.ptx_loss_coef, in thousandths
  ptx_observable,           \* values self.ptx_loss_fn can return, in thousandths
  margin_loss,              \* args.margin_loss (self.margin_loss after __init__)
  is_rank_0,                \* strategy.is_rank_0() on the process modelled
  use_wandb,                \* args.use_wandb is set
  loss_fn,                  \* self.loss_fn ("unset" before __init__ assigns it)
  self_add_pretrain_loss,   \* self.add_pretrain_loss
  self_wandb,               \* self._wandb is not None
  wandb_calls,              \* calls made on the experiment tracker so far
  train_batch_size,         \* args.train_batch_size
  accumulated_gradient,     \* strategy.accumulated_gradient
  num_update_steps_per_epoch,
  epochs,                   \* self.epochs
  loader_len,               \* number of micro-batches the train dataloader yields per epoch
  sampler,                  \* type of train_dataloader.sampler
  eval_dataloader,          \* [is_none, len]
  logging_steps, eval_steps, save_steps,   \* args.*_steps
  cli_consumed_samples,     \* consumed_samples held by train() and passed to fit
  observable,               \* metric triples the model can produce on this data
  step, start_epoch, consumed_samples, epoch, batch_idx,   \* locals of fit
  loss_mean, acc_mean, prob_mean, logs_dict,               \* locals of fit
  model_mode,               \* "train" / "eval" / "unset"
  set_epoch_calls,          \* calls made on the sampler: <<[epoch, consumed_samples]>>
  hook_steps,               \* global_step of every save_logs_and_checkpoints call so far
  eval_calls,               \* every evaluate call so far: <<[epoch, global_step, batch_idx]>>
  event,                    \* what the last fit iteration did
  batch,                    \* one batch of the dataloader and tokenizer.pad_token_id
  fwd,                      \* what concatenated_forward returned for batch
  padded,                   \* argument and result of pad_to_length calls
  gate                      \* chosen_response_len and the gating input fit gathers for batch

cfg == <<is_general_preference, value_head_dim, add_prompt_head, packing_samples,
         args_add_pretrain_loss, ptx_loss_coef, ptx_observable, margin_loss, is_rank_0,
         use_wandb,
         train_batch_size, accumulated_gradient, num_update_steps_per_epoch,
         epochs, loader_len, sampler, eval_dataloader, logging_steps,
         cli_consumed_samples, observable>>

locals == <<step, start_epoch, consumed_samples, epoch, batch_idx,
            loss_mean, acc_mean, prob_mean, logs_dict>>

tensors == <<batch, fwd, padded, gate>>

(* what no step after __init__ assigns *)
fixed == <<cfg, tensors, self_wandb>>

(* the state of the trainer and of fit *)
trainer == <<pc, error, cfg, loss_fn, self_add_pretrain_loss, self_wandb, wandb_calls,
             eval_steps, save_steps, locals, model_mode, set_epoch_calls, hook_steps,
             eval_calls, event>>

vars == <<pc, error, cfg, loss_fn, self_add_pretrain_loss, self_wandb, wandb_calls,
          eval_steps, save_steps, locals, model_mode, set_epoch_calls, hook_steps,
          eval_calls, event, tensors>>

(* --------------------------- __init__ --------------------------------- *)

(* LossFor with the prompt-head test dropped from the first branch *)
LossFor_NoHeadTest(gp, vhd, head) ==
  IF gp
  THEN IF vhd = 2
       THEN "GeneralPreferenceLoss"
       ELSE IF vhd % 2 # 0
            THEN "AssertionError"
            ELSE IF head
                 THEN "HighDimGeneralPreferenceMoELoss"
                 ELSE "HighDimGeneralPreferenceLoss"
  ELSE "PairWiseLoss"

(* LossFor with the assert moved into the branch without a prompt head *)
LossFor_AssertLate(gp, vhd, head) ==
  IF gp
  THEN IF vhd = 2 /\ ~head
       THEN "GeneralPreferenceLoss"
       ELSE IF head
            THEN "HighDimGeneralPreferenceMoELoss"
            ELSE IF vhd % 2 # 0
                 THEN "AssertionError"
                 ELSE "HighDimGeneralPreferenceLoss"
  ELSE "PairWiseLoss"

(* loss dispatch of __init__; "AssertionError" when the assert fails *)
LossFor(gp, vhd, head) ==
  IF gp
  THEN IF vhd = 2 /\ ~head
       THEN "GeneralPreferenceLoss"
       ELSE IF vhd % 2 # 0
            THEN "AssertionError"
            ELSE IF head
                 THEN "HighDimGeneralPreferenceMoELoss"
                 ELSE "HighDimGeneralPreferenceLoss"
  ELSE "PairWiseLoss"

(* self.add_pretrain_loss as __init__ leaves it *)
SelfAddPretrainLoss(apl, coefPos) ==
  IF apl THEN (IF coefPos THEN TRUE ELSE FALSE) ELSE FALSE

(* WandbEnabled without the rank test *)
WandbEnabled_AnyRank(uw, rank0) == uw

(* the guard of the wandb block of __init__ *)
WandbEnabled(uw, rank0) == uw /\ rank0

(* the guard of every self._wandb.log / self._wandb.finish call *)
TrackerCall(handle, rank0) == handle /\ rank0

Construct ==
  /\ pc = "new"
  /\ LET l == LossFor(is_general_preference, value_head_dim, add_prompt_head) IN
     IF l = "AssertionError"
     THEN /\ pc' = "ctor_failed"
          /\ error' = "AssertionError"
          /\ UNCHANGED <<loss_fn, self_add_pretrain_loss, self_wandb, wandb_calls>>
     ELSE /\ pc' = "constructed"
          /\ loss_fn' = l
          /\ self_wandb' = WandbEnabled(use_wandb, is_rank_0)
          /\ wandb_calls' = IF WandbEnabled(use_wandb, is_rank_0)
                            THEN <<"init">> ELSE <<>>
          /\ self_add_pretrain_loss' =
               SelfAddPretrainLoss(args_add_pretrain_loss, ptx_loss_coef > 0)
          /\ UNCHANGED error
  /\ UNCHANGED <<cfg, tensors, eval_steps, save_steps, locals, model_mode, set_epoch_calls,
                 hook_steps, eval_calls, event>>

(* ------------------------------ fit ----------------------------------- *)

(* args.eval_steps after the first lines of fit *)
EvalStepsOf(es, S) == IF es = -1 THEN S ELSE es

(* args.save_steps after the first lines of fit *)
SaveStepsOf(ss) == IF ss = -1 THEN Inf ELSE ss

(* Python's a % b for a >= 0 and b a positive int or float("inf") *)
PyMod(a, b) == IF b = Inf THEN a ELSE a % b

(* RestoreStep that starts counting at 0 *)
RestoreStep_FromZero(k, B, AG) == (k \div B) * AG

RestoreStep(k, B, AG) == (k \div B) * AG + 1

(* RestoreEpoch without the division by the batch size *)
RestoreEpoch_NoBatch(k, B, S) == k \div S

RestoreEpoch(k, B, S) == (k \div B) \div S

RestoreOffset(k, B, S) == k % (S * B)

FitStart ==
  /\ pc = "constructed"
  /\ eval_steps' = EvalStepsOf(eval_steps, num_update_steps_per_epoch)
  /\ save_steps' = SaveStepsOf(save_steps)
  /\ step' = RestoreStep(cli_consumed_samples, train_batch_size, accumulated_gradient)
  /\ start_epoch' = RestoreEpoch(cli_consumed_samples, train_batch_size,
                                 num_update_steps_per_epoch)
  /\ consumed_samples' = RestoreOffset(cli_consumed_samples, train_batch_size,
                                       num_update_steps_per_epoch)
  /\ epoch' = start_epoch'
  /\ pc' = "epoch_loop"
  /\ UNCHANGED <<error, fixed, wandb_calls, loss_fn, self_add_pretrain_loss, batch_idx, loss_mean,
                 acc_mean, prob_mean, logs_dict, model_mode, set_epoch_calls,
                 hook_steps, eval_calls, event>>

(* the isinstance guard around sampler.set_epoch *)
CallsSetEpoch(kind) == kind = "GroupDistributedSampler"

(* SetEpochOffset that passes the offset to every epoch *)
SetEpochOffset_Always(e, se, offset) == offset

(* the consumed_samples argument of sampler.set_epoch *)
SetEpochOffset(e, se, offset) == IF e > se THEN 0 ELSE offset

Max(a, b) == IF a >= b THEN a ELSE b

(* micro-batches of the epoch a GroupDistributedSampler leaves out after        *)
(* set_epoch(epoch, consumed_samples = offset): the offset // B update steps of *)
(* the epoch that are already consumed, AG micro-batches each (the sampler is   *)
(* an external collaborator; this is the behaviour its specification gives)     *)
SkippedBatches(offset, B, AG) == (offset \div B) * AG

(* number of batches "for data in self.train_dataloader" yields in epoch e *)
BatchesInEpoch(kind, L, e, se, offset, B, AG) ==
  IF CallsSetEpoch(kind)
  THEN Max(0, L - SkippedBatches(SetEpochOffset(e, se, offset), B, AG))
  ELSE L

(* the same for the epoch fit is in *)
EpochBatches ==
  BatchesInEpoch(sampler, loader_len, epoch, start_epoch, consumed_samples,
                 train_batch_size, accumulated_gradient)

(* EpochStartMean that keeps the mean of the previous epoch *)
EpochStartMean_Keep(m) == m

(* value the running means have when the step loop of an epoch begins *)
EpochStartMean(m) == 0

EpochStart ==
  /\ pc = "epoch_loop"
  /\ epoch < epochs
  /\ set_epoch_calls' =
       IF CallsSetEpoch(sampler)
       THEN Append(set_epoch_calls,
                   [epoch |-> epoch,
                    consumed_samples |-> SetEpochOffset(epoch, start_epoch, consumed_samples)])
       ELSE set_epoch_calls
  /\ model_mode' = "train"
  /\ acc_mean' = EpochStartMean(acc_mean)
  /\ prob_mean' = EpochStartMean(prob_mean)
  /\ loss_mean' = EpochStartMean(loss_mean)
  /\ batch_idx' = 0
  /\ pc' = "step_loop"
  /\ event' = NoEvent
  /\ UNCHANGED <<error, fixed, wandb_calls, loss_fn, self_add_pretrain_loss, eval_steps, save_steps,
                 step, start_epoch, consumed_samples, epoch, logs_dict, hook_steps, eval_calls>>

(* one exponential-moving-average update, m * 0.9 + 0.1 * x, in thousandths *)
EMA(m, x) == (9 * m + x) \div 10

(* number of EMA update blocks one iteration of the step loop runs *)
EmaBlocks == 2

RECURSIVE EmaTimes(_, _, _)
EmaTimes(m, xs, n) ==
  IF n = 0 THEN m ELSE EmaTimes(EMA(m, xs[Len(xs) - n + 1]), xs, n - 1)

IsMoE(l) == l = "HighDimGeneralPreferenceMoELoss"

(* the else branch of the first "if args.add_pretrain_loss" runs the packed forward again *)
Reforward(apl) == ~apl

(* exception raised by the body of the step loop before strategy.backward *)
BodyError(packing, apl, moe) ==
  IF Reforward(apl) /\ ~packing
  THEN "UnboundLocalError"          \* packed_input_ids is only bound by the packed unpacking
  ELSE IF moe /\ packing
       THEN "UnboundLocalError"     \* chosen_ids is only bound by the non-packed unpacking
       ELSE "none"

(* model.forward calls of the second "if args.add_pretrain_loss" with SFTSumLoss *)
PtxForwards(apl) == IF apl THEN 1 ELSE 0

(* the blend with the two weights exchanged *)
Blend_Swapped(coef, preference_loss, ptx_loss) ==
  (coef * preference_loss + ptx_loss * (1000 - coef)) \div 1000

(* (1 - args.ptx_loss_coef) * preference_loss + chosen_reward_ptx_loss * args.ptx_loss_coef *)
Blend(coef, preference_loss, ptx_loss) ==
  ((1000 - coef) * preference_loss + ptx_loss * coef) \div 1000

(* the loss handed to strategy.backward *)
BackwardLoss(apl, coef, preference_loss, ptx_loss) ==
  IF apl THEN Blend(coef, preference_loss, ptx_loss) ELSE preference_loss

(* the f-string of save_logs_and_checkpoints *)
Tag(g) == "global_step" \o ToString(g)

(* ClientStates that counts optimizer steps instead of samples *)
ClientStates_Steps(g, B) == [consumed_samples |-> g]

ClientStates(g, B) == [consumed_samples |-> g * B]

(* HookDue that also fires on the micro-batch before an accumulation boundary *)
HookDue_Early(s, AG) == s % AG = 0 \/ (s + 1) % AG = 0

HookDue(s, AG) == s % AG = 0

GlobalStep(s, AG) == s \div AG

(* return_output as the step loop of fit computes it *)
FitReturnOutput(l) ==
  l \in {"HighDimGeneralPreferenceRegressionMoELoss", "HighDimGeneralPreferenceMoELoss"}

(* return_output as evaluate computes it *)
EvalReturnOutput(l) == l = "HighDimGeneralPreferenceRegressionMoELoss"

(* what fit hands to model and loss for a batch *)
FitFeeds(l, ml) ==
  [return_output |-> FitReturnOutput(l),
   hidden |-> l \in {"HighDimGeneralPreferenceRegressionMoELoss",
                     "HighDimGeneralPreferenceMoELoss"},
   offset |-> IF l \in {"HighDimGeneralPreferenceRegressionMoELoss",
                        "HighDimGeneralPreferenceMoELoss"} THEN -1 ELSE 0,
   margin |-> IF ml THEN "tensor" ELSE "None"]

(* what evaluate hands to model and loss for a batch *)
EvalFeeds(l, ml) ==
  [return_output |-> EvalReturnOutput(l),
   hidden |-> l = "HighDimGeneralPreferenceRegressionMoELoss",
   offset |-> 0,
   margin |-> "tensor"]

RECURSIVE LossSum(_)
LossSum(xs) == IF xs = <<>> THEN 0 ELSE Head(xs) + LossSum(Tail(xs))

(* ModeAfterEvaluate without the self.model.train() call *)
ModeAfterEvaluate_Keep(m) == m

(* mode of the model after the last lines of evaluate *)
ModeAfterEvaluate(m) == "train"

(* EvalMean that divides by one batch more *)
EvalMean_OffByOne(loss_sum, batches) == loss_sum \div (batches + 1)

(* loss_mean = loss_sum / self.eval_dataloader.__len__(), in thousandths *)
EvalMean(loss_sum, batches) == loss_sum \div batches

(* evaluate reduces loss_mean over the processes whatever their rank *)
EvalAllReduce_Rank0Only(rank0) == rank0

EvalAllReduce(rank0) == TRUE

(* evaluate(eval_dataloader) called with the model in mode m: dl is the loader *)
(* it iterates, self_dl is self.eval_dataloader, xs the loss of every batch    *)
Evaluate(dl, self_dl, m, xs, rank0, handle) ==
  IF dl.is_none
  THEN [raised |-> "AttributeError", mode |-> m, forwards |-> 0, forward_mode |-> "none",
        all_reduce |-> FALSE, wandb_log |-> FALSE, returned |-> NoReturn,
        calls |-> <<>>]
  ELSE LET in_loop == IF dl.len > 0 THEN "eval" ELSE "none" IN
       IF self_dl.len = 0
       THEN [raised |-> "ZeroDivisionError", mode |-> "eval", forwards |-> dl.len,
             forward_mode |-> in_loop, all_reduce |-> FALSE, wandb_log |-> FALSE,
             returned |-> NoReturn, calls |-> <<"model.eval">>]
       ELSE [raised |-> "none", mode |-> ModeAfterEvaluate("eval"), forwards |-> dl.len,
             forward_mode |-> in_loop, all_reduce |-> EvalAllReduce(rank0),
             wandb_log |-> TrackerCall(handle, rank0),
             returned |-> IF rank0
                          THEN [has_value |-> TRUE,
                                value |-> EvalMean(LossSum(xs), self_dl.len)]
                          ELSE NoReturn,
             calls |-> <<"model.eval">>
                       \o (IF EvalAllReduce(rank0) THEN <<"eval.all_reduce">> ELSE <<>>)
                       \o (IF TrackerCall(handle, rank0) THEN <<"wandb.log">> ELSE <<>>)
                       \o <<"model.train">>]

LogDue(g, ls) == PyMod(g, ls) = 0

EvalDue(g, es) == PyMod(g, es) = 0

SaveDue(g, ss) == PyMod(g, ss) = 0

(* the three blocks of save_logs_and_checkpoints in the order they are written *)
HookCalls(logging, evaluation, saving) == logging \o evaluation \o saving

(* save_logs_and_checkpoints(args, global_step, ..., client_states): the calls it *)
(* makes; xs are the losses the validation batches give if evaluate runs          *)
SaveLogsAndCheckpoints(g, cs, xs) ==
  LET ev == IF EvalDue(g, eval_steps)
            THEN Evaluate(eval_dataloader, eval_dataloader, model_mode, xs,
                          is_rank_0, self_wandb)
            ELSE [raised |-> "none", mode |-> model_mode, forwards |-> 0,
                  forward_mode |-> "none", all_reduce |-> FALSE, wandb_log |-> FALSE,
                  returned |-> NoReturn, calls |-> <<>>]
      train_log == LogDue(g, logging_steps) /\ TrackerCall(self_wandb, is_rank_0)
      sv == ev.raised = "none" /\ SaveDue(g, save_steps)
  IN [all_reduce |-> LogDue(g, logging_steps),
      evaluate |-> EvalDue(g, eval_steps),
      raised |-> ev.raised,
      mode |-> ev.mode,
      eval_batches |-> ev.forwards,
      eval_mode |-> ev.forward_mode,
      eval_losses |-> IF EvalDue(g, eval_steps) /\ ev.raised = "none" THEN xs ELSE <<>>,
      eval_return |-> ev.returned,
      wandb_logs |-> (IF train_log THEN 1 ELSE 0) + (IF ev.wandb_log THEN 1 ELSE 0),
      save_ckpt |-> sv,
      tag |-> IF sv THEN Tag(g) ELSE "",
      client_states |-> IF sv THEN cs ELSE [consumed_samples |-> 0],
      calls |-> HookCalls((IF LogDue(g, logging_steps) THEN <<"all_reduce">> ELSE <<>>)
                          \o (IF train_log THEN <<"wandb.log">> ELSE <<>>),
                          IF EvalDue(g, eval_steps) THEN <<"evaluate">> \o ev.calls
                          ELSE <<>>,
                          IF sv THEN <<"save_ckpt">> ELSE <<>>)]

(* the losses the batches of the validation loader can give *)
EvalLosses ==
  [1 .. (IF eval_dataloader.is_none THEN 0 ELSE eval_dataloader.len)
     -> {o.loss : o \in observable}]

MicroBatch ==
  /\ pc = "step_loop"
  /\ batch_idx < EpochBatches
  /\ \E o1 \in observable, o2 \in observable, vs \in EvalLosses,
        px \in ptx_observable :
       LET moe == IsMoE(loss_fn)
           refwd == Reforward(args_add_pretrain_loss)
           err == BodyError(packing_samples, args_add_pretrain_loss, moe)
           xs == <<o1, o2>>
           lm == EmaTimes(loss_mean, <<o1.loss, o2.loss>>, EmaBlocks)
           am == EmaTimes(acc_mean, <<o1.acc, o2.acc>>, EmaBlocks)
           pm == EmaTimes(prob_mean, <<o1.prob, o2.prob>>, EmaBlocks)
           last == xs[EmaBlocks]
           due == HookDue(step, accumulated_gradient)
           g == GlobalStep(step, accumulated_gradient)
           h == SaveLogsAndCheckpoints(g, ClientStates(g, train_batch_size), vs)
           ran == [NoEvent EXCEPT !.micro = TRUE, !.backward = 1, !.optimizer_step = 1,
                                  !.train_mode = model_mode,
                                  !.fit_feeds = FitFeeds(loss_fn, margin_loss),
                                  !.ema_updates = EmaBlocks,
                                  !.forwards = IF refwd THEN 2 ELSE 1,
                                  !.calls = <<"backward", "optimizer_step">>,
                                  !.preference_loss = last.loss,
                                  !.ptx_forwards = PtxForwards(args_add_pretrain_loss),
                                  !.ptx_loss = IF args_add_pretrain_loss THEN px ELSE 0,
                                  !.loss = BackwardLoss(args_add_pretrain_loss,
                                                        ptx_loss_coef, last.loss, px)]
       IN /\ (refwd /\ packing_samples) \/ o2 = o1
          /\ (args_add_pretrain_loss /\ err = "none") \/ \A v \in ptx_observable : px >= v
          /\ IF err # "none"
             THEN /\ pc' = "crashed"
                  /\ error' = err
                  /\ event' = [NoEvent EXCEPT !.micro = TRUE, !.ema_updates = 1,
                                              !.train_mode = model_mode,
                                              !.fit_feeds = FitFeeds(loss_fn, margin_loss),
                                              !.forwards = IF refwd /\ packing_samples
                                                           THEN 2 ELSE 1]
                  /\ loss_mean' = EMA(loss_mean, o1.loss)
                  /\ acc_mean' = EMA(acc_mean, o1.acc)
                  /\ prob_mean' = EMA(prob_mean, o1.prob)
                  /\ UNCHANGED <<step, batch_idx, logs_dict, hook_steps, eval_calls,
                                 model_mode, wandb_calls>>
             ELSE /\ loss_mean' = lm
                  /\ acc_mean' = am
                  /\ prob_mean' = pm
                  /\ logs_dict' = [loss |-> last.loss, loss_mean |-> lm,
                                   acc |-> last.acc, acc_mean |-> am,
                                   probs |-> last.prob, prob_mean |-> pm]
                  /\ IF due
                     THEN /\ hook_steps' = Append(hook_steps, g)
                          /\ eval_calls' =
                               IF h.evaluate
                               THEN Append(eval_calls,
                                           [epoch |-> epoch, global_step |-> g,
                                            batch_idx |-> batch_idx])
                               ELSE eval_calls
                          /\ event' = [ran EXCEPT !.hook = TRUE, !.global_step = g,
                                                  !.all_reduce = h.all_reduce,
                                                  !.evaluate = h.evaluate,
                                                  !.eval_batches = h.eval_batches,
                                                  !.eval_mode = h.eval_mode,
                                                  !.eval_feeds =
                                                     IF h.eval_batches > 0
                                                     THEN EvalFeeds(loss_fn, margin_loss)
                                                     ELSE NoFeeds,
                                                  !.eval_losses = h.eval_losses,
                                                  !.eval_return = h.eval_return,
                                                  !.wandb_logs = h.wandb_logs,
                                                  !.save_ckpt = h.save_ckpt,
                                                  !.tag = h.tag,
                                                  !.client_states = h.client_states,
                                                  !.calls = ran.calls \o h.calls]
                          /\ model_mode' = h.mode
                          /\ wandb_calls' =
                               wandb_calls \o [i \in 1 .. h.wandb_logs |-> "log"]
                          /\ IF h.raised # "none"
                             THEN /\ pc' = "crashed"
                                  /\ error' = h.raised
                                  /\ UNCHANGED <<step, batch_idx>>
                             ELSE /\ step' = step + 1
                                  /\ batch_idx' = batch_idx + 1
                                  /\ UNCHANGED <<pc, error>>
                     ELSE /\ event' = ran
                          /\ step' = step + 1
                          /\ batch_idx' = batch_idx + 1
                          /\ UNCHANGED <<pc, error, hook_steps, eval_calls, model_mode,
                                         wandb_calls>>
  /\ UNCHANGED <<fixed, loss_fn, self_add_pretrain_loss, eval_steps, save_steps,
                 start_epoch, consumed_samples, epoch, set_epoch_calls>>

(* the train dataloader is exhausted: epoch_bar.update() and the next epoch *)
EpochEnd ==
  /\ pc = "step_loop"
  /\ batch_idx = EpochBatches
  /\ epoch' = epoch + 1
  /\ pc' = "epoch_loop"
  /\ event' = NoEvent
  /\ UNCHANGED <<error, fixed, wandb_calls, loss_fn, self_add_pretrain_loss, eval_steps, save_steps,
                 step, start_epoch, consumed_samples, batch_idx, loss_mean, acc_mean,
                 prob_mean, logs_dict, model_mode, set_epoch_calls, hook_steps, eval_calls>>

(* range(start_epoch, self.epochs) is exhausted: fit returns *)
FitEnd ==
  /\ pc = "epoch_loop"
  /\ epoch >= epochs
  /\ pc' = "done"
  /\ event' = NoEvent
  /\ wandb_calls' = IF TrackerCall(self_wandb, is_rank_0)
                    THEN Append(wandb_calls, "finish")
                    ELSE wandb_calls
  /\ UNCHANGED <<error, fixed, loss_fn, self_add_pretrain_loss, eval_steps, save_steps,
                 locals, model_mode, set_epoch_calls, hook_steps, eval_calls>>

Next == Construct \/ FitStart \/ EpochStart \/ MicroBatch \/ EpochEnd \/ FitEnd

(* ---------------- concatenated_forward and its helpers ---------------- *)

MaxRows == 2
MaxWidth == 2
MaxSeqs == 4

(* values of tokenizer.pad_token_id *)
PadIds == {0, 3}

(* lengths a packed sequence can have *)
SeqLens == {1, 10, 12}

(* tensor.size(-1) of a (rows, width) tensor held as a sequence of rows *)
Width(t) == Len(t[1])

(* one row of pad_value * torch.ones(n) *)
Fill(n, v) == [j \in 1 .. n |-> v]

(* PadToLength that appends the fill after the row *)
PadToLength_Right(tensor, length, pad_value) ==
  IF Width(tensor) >= length
  THEN tensor
  ELSE [i \in 1 .. Len(tensor) |->
          tensor[i] \o Fill(length - Width(tensor), pad_value)]

(* pad_to_length(tensor, length, pad_value, dim=-1) *)
PadToLength(tensor, length, pad_value) ==
  IF Width(tensor) >= length
  THEN tensor
  ELSE [i \in 1 .. Len(tensor) |->
          Fill(length - Width(tensor), pad_value) \o tensor[i]]

(* ConcatenatedInputs that stacks the rejected rows first *)
ConcatenatedInputs_RejectedFirst(chosen_ids, c_mask, reject_ids, r_mask, pad_token_id) ==
  LET ids_length == Max(Width(chosen_ids), Width(reject_ids))
      mask_length == Max(Width(c_mask), Width(r_mask))
  IN [input_ids |-> PadToLength(reject_ids, ids_length, pad_token_id)
                      \o PadToLength(chosen_ids, ids_length, pad_token_id),
      att_masks |-> PadToLength(r_mask, mask_length, 0)
                      \o PadToLength(c_mask, mask_length, 0)]

(* concatenated_inputs: torch.cat along dim 0 of the padded chosen and rejected tensors *)
ConcatenatedInputs(chosen_ids, c_mask, reject_ids, r_mask, pad_token_id) ==
  LET ids_length == Max(Width(chosen_ids), Width(reject_ids))
      mask_length == Max(Width(c_mask), Width(r_mask))
  IN [input_ids |-> PadToLength(chosen_ids, ids_length, pad_token_id)
                      \o PadToLength(reject_ids, ids_length, pad_token_id),
      att_masks |-> PadToLength(c_mask, mask_length, 0)
                      \o PadToLength(r_mask, mask_length, 0)]

(* model.custom_forward: one value row per input row, or per packed sequence; *)
(* a value is held as the input it was computed from                          *)
CustomForward(input_ids, attention_mask, packing, packed_seq_lens) ==
  IF packing
  THEN [i \in 1 .. Len(packed_seq_lens) |-> [sequence |-> i, len |-> packed_seq_lens[i]]]
  ELSE [i \in 1 .. Len(input_ids) |-> [ids |-> input_ids[i], mask |-> attention_mask[i]]]

(* NumChosen that rounds the half up *)
NumChosen_RoundUp(num_sequences) == (num_sequences + 1) \div 2

(* num_chosen = num_sequences // 2 *)
NumChosen(num_sequences) == num_sequences \div 2

(* all_values[a:b] with 0 <= a and b <= len(all_values), a and b zero-based *)
Slice(all_values, a, b) == SubSeq(all_values, a + 1, b)

(* concatenated_forward(model, chosen_ids, c_mask, reject_ids, r_mask): in the packed *)
(* mode chosen_ids holds the packed ids and reject_ids the packed sequence lengths     *)
ConcatenatedForward(packing, chosen_ids, c_mask, reject_ids, r_mask, pad_token_id) ==
  IF ~packing
  THEN LET cat == ConcatenatedInputs(chosen_ids, c_mask, reject_ids, r_mask, pad_token_id)
           all_values == CustomForward(cat.input_ids, cat.att_masks, FALSE, <<>>)
       IN [input_ids |-> cat.input_ids,
           att_masks |-> cat.att_masks,
           split |-> Len(chosen_ids),
           chosen_rewards |-> Slice(all_values, 0, Len(chosen_ids)),
           rejected_rewards |-> Slice(all_values, Len(chosen_ids), Len(all_values))]
  ELSE LET all_values == CustomForward(chosen_ids, c_mask, TRUE, reject_ids)
           num_sequences == Len(reject_ids)
           num_chosen == NumChosen(num_sequences)
       IN [input_ids |-> chosen_ids,
           att_masks |-> c_mask,
           split |-> num_chosen,
           chosen_rewards |-> Slice(all_values, 0, num_chosen),
           rejected_rewards |-> Slice(all_values, num_chosen, num_sequences)]

NoForward ==
  [called |-> FALSE, input_ids |-> <<>>, att_masks |-> <<>>, split |-> 0,
   chosen_rewards |-> <<>>, rejected_rewards |-> <<>>]

(* one call of concatenated_forward on the batch *)
ConcatenatedForwardCall ==
  /\ ~fwd.called
  /\ fwd' = [called |-> TRUE] @@
            ConcatenatedForward(packing_samples, batch.chosen_ids, batch.c_mask,
                                batch.reject_ids, batch.r_mask, batch.pad_token_id)
  /\ UNCHANGED <<trainer, batch, padded, gate>>

(* one call of pad_to_length; a second call is made on the result of the first *)
PadToLengthCall ==
  /\ padded.calls < 2
  /\ padded' = [padded EXCEPT !.tensor = PadToLength(padded.tensor, padded.length,
                                                     padded.pad_value),
                              !.calls = padded.calls + 1]
  /\ UNCHANGED <<trainer, batch, fwd, gate>>

(* outputs["last_hidden_state"] of custom_forward: one state per row and position, *)
(* held as the (zero-based) position and the token it stands on                    *)
LastHiddenState(input_ids) ==
  [i \in 1 .. Len(input_ids) |->
     [j \in 1 .. Width(input_ids) |->
        [row |-> i, position |-> j - 1, token |-> input_ids[i][j]]]]

(* the index of evaluate's regression branch, without the - 1 *)
PromptEndIndex_PromptLen(size1, chosen_response_len) == size1 - chosen_response_len

(* prompt_end_index = chosen_last_hidden_states.size(1) - chosen_response_len - 1 *)
PromptEndIndex(size1, chosen_response_len) == size1 - chosen_response_len - 1

(* torch.gather(chosen_last_hidden_states, dim=1, index=...).squeeze(1), zero-based index *)
Gather(hidden_states, index) ==
  [i \in 1 .. Len(hidden_states) |-> hidden_states[i][index[i] + 1]]

NoGate ==
  [called |-> FALSE, raised |-> FALSE, chosen_response_len |-> <<>>, index |-> <<>>,
   prompt_hidden_state |-> <<>>]

(* the MoE branch of fit on a non-packed batch after concatenated_forward: the *)
(* dataloader gives one chosen_response_len per chosen row; torch.gather       *)
(* raises for an index outside the tensor                                      *)
PromptHiddenStateCall ==
  /\ fwd.called
  /\ ~packing_samples
  /\ ~gate.called
  /\ \E crl \in [1 .. Len(batch.chosen_ids) -> 0 .. MaxWidth] :
       LET last_hidden_states == LastHiddenState(fwd.input_ids)
           batch_size == Len(batch.chosen_ids)
           chosen_last_hidden_states == Slice(last_hidden_states, 0, batch_size)
           size1 == Width(chosen_last_hidden_states)
           prompt_end_index == [i \in 1 .. batch_size |-> PromptEndIndex(size1, crl[i])]
           inside == \A i \in 1 .. batch_size : prompt_end_index[i] \in 0 .. size1 - 1
       IN gate' = [called |-> TRUE, raised |-> ~inside, chosen_response_len |-> crl,
                   index |-> prompt_end_index,
                   prompt_hidden_state |->
                     IF inside THEN Gather(chosen_last_hidden_states, prompt_end_index)
                     ELSE <<>>]
  /\ UNCHANGED <<trainer, batch, fwd, padded>>

NextTensors == ConcatenatedForwardCall \/ PadToLengthCall \/ PromptHiddenStateCall

(* ------------------------- initial states ----------------------------- *)

StepsCfg == {-1} \cup (1 .. MaxInterval)

EvalLoaders ==
  {[is_none |-> TRUE, len |-> 0]} \cup {[is_none |-> FALSE, len |-> n] : n \in 0 .. MaxEvalLen}

(* state of the process before GeneralPreferenceModelTrainer(...) is called *)
InitProgram ==
  /\ pc = "new"
  /\ error = "none"
  /\ loss_fn = "unset"
  /\ self_add_pretrain_loss = FALSE
  /\ self_wandb = FALSE
  /\ wandb_calls = <<>>
  /\ step = 0 /\ start_epoch = 0 /\ epoch = 0 /\ batch_idx = 0
  /\ consumed_samples = cli_consumed_samples
  /\ loss_mean = 0 /\ acc_mean = 0 /\ prob_mean = 0
  /\ logs_dict = ZeroLogs
  /\ model_mode = "unset"
  /\ set_epoch_calls = <<>>
  /\ hook_steps = <<>>
  /\ eval_calls = <<>>
  /\ event = NoEvent

(* the trainer specifications hold no batch *)
NoTensors ==
  /\ batch = [chosen_ids |-> <<>>, c_mask |-> <<>>, reject_ids |-> <<>>, r_mask |-> <<>>,
              pad_token_id |-> 0]
  /\ fwd = NoForward
  /\ padded = [tensor |-> <<>>, length |-> 0, pad_value |-> 0, calls |-> 2]
  /\ gate = NoGate

(* token ids of a collated (rows, width) batch: row i carries i - 1 leading pad *)
(* tokens and distinct token ids after them                                     *)
Ids(base, rows, width, pad_token_id) ==
  [i \in 1 .. rows |->
     [j \in 1 .. width |-> IF j < i THEN pad_token_id ELSE base + 10 * i + j]]

(* attention mask of the same batch *)
Mask(rows, width) ==
  [i \in 1 .. rows |-> [j \in 1 .. width |-> IF j < i THEN 0 ELSE 1]]

(* non-packed batches: (chosen_ids, c_mask, reject_ids, r_mask) *)
PlainBatches ==
  {[chosen_ids |-> Ids(100, bc, lc, p), c_mask |-> Mask(bc, lc),
    reject_ids |-> Ids(200, br, lr, p), r_mask |-> Mask(br, lr),
    pad_token_id |-> p] :
     bc \in 1 .. MaxRows, br \in 1 .. MaxRows, lc \in 1 .. MaxWidth,
     lr \in 1 .. MaxWidth, p \in PadIds}

RECURSIVE Sum(_)
Sum(lens) == IF lens = <<>> THEN 0 ELSE Head(lens) + Sum(Tail(lens))

SeqsOf(S, n) == UNION {[1 .. k -> S] : k \in 0 .. n}

(* packed batches: (packed_input_ids, packed_attention_masks, packed_seq_lens, None) *)
PackedBatches ==
  {[chosen_ids |-> <<[j \in 1 .. Sum(lens) |-> 300 + j]>>,
    c_mask |-> <<[j \in 1 .. Sum(lens) |-> 1]>>,
    reject_ids |-> lens, r_mask |-> <<>>, pad_token_id |-> p] :
     lens \in SeqsOf(SeqLens, MaxSeqs), p \in PadIds}

(* concatenated_forward and pad_to_length on every batch shape of both modes *)
InitTensors ==
  /\ is_general_preference = FALSE
  /\ value_head_dim = 2
  /\ add_prompt_head = FALSE
  /\ packing_samples \in BOOLEAN
  /\ args_add_pretrain_loss = TRUE
  /\ ptx_loss_coef = PtxLossCoefDefault
  /\ ptx_observable = {800}
  /\ margin_loss = FALSE
  /\ is_rank_0 = TRUE
  /\ use_wandb = FALSE
  /\ train_batch_size = 1
  /\ accumulated_gradient = 1
  /\ num_update_steps_per_epoch = 1
  /\ epochs = 1
  /\ loader_len = 1
  /\ sampler = "GroupDistributedSampler"
  /\ eval_dataloader = [is_none |-> FALSE, len |-> 1]
  /\ logging_steps = 1
  /\ eval_steps = -1
  /\ save_steps = -1
  /\ cli_consumed_samples = 0
  /\ observable = {ObsHigh}
  /\ InitProgram
  /\ batch \in (IF packing_samples THEN PackedBatches ELSE PlainBatches)
  /\ fwd = NoForward
  /\ \E n \in 0 .. (MaxWidth + 1), v \in PadIds :
       padded = [tensor |-> batch.chosen_ids, length |-> n, pad_value |-> v, calls |-> 0]
  /\ gate = NoGate

SpecTensors == InitTensors /\ [][NextTensors]_vars

(* resumed and fresh training runs: every batch mode, schedule, resume point, *)
(* sampler and checkpoint interval, with one validation loader and with none  *)
Init ==
  /\ is_general_preference = FALSE
  /\ value_head_dim = 2
  /\ add_prompt_head = FALSE
  /\ packing_samples \in BOOLEAN
  /\ args_add_pretrain_loss \in BOOLEAN
  /\ ptx_loss_coef = PtxLossCoefDefault
  /\ ptx_observable = {800}
  /\ margin_loss = FALSE
  /\ is_rank_0 = TRUE
  /\ use_wandb = FALSE
  /\ train_batch_size \in 1 .. MaxBatch
  /\ accumulated_gradient \in 1 .. MaxAccum
  /\ num_update_steps_per_epoch \in 1 .. MaxStepsPerEpoch
  /\ epochs \in 1 .. MaxEpochs
  /\ loader_len \in 1 .. MaxLen
  /\ sampler \in SamplerKinds
  /\ eval_dataloader \in {[is_none |-> TRUE, len |-> 0],
                         [is_none |-> FALSE, len |-> 1]}
  /\ logging_steps = 1
  /\ eval_steps = -1
  /\ save_steps \in StepsCfg
  /\ cli_consumed_samples \in 0 .. MaxConsumed
  /\ observable = {ObsHigh}
  /\ InitProgram
  /\ NoTensors

Spec == Init /\ [][Next]_vars

(* construction: every loss configuration and batch mode, one short schedule *)
InitCtor ==
  /\ is_general_preference \in BOOLEAN
  /\ value_head_dim \in 1 .. MaxDim
  /\ add_prompt_head \in BOOLEAN
  /\ packing_samples \in BOOLEAN
  /\ args_add_pretrain_loss \in BOOLEAN
  /\ ptx_loss_coef \in Coefs
  /\ ptx_observable = PtxLosses
  /\ margin_loss \in BOOLEAN
  /\ is_rank_0 = TRUE
  /\ use_wandb = FALSE
  /\ train_batch_size = 1
  /\ accumulated_gradient \in 1 .. MaxAccum
  /\ num_update_steps_per_epoch = 1
  /\ epochs = 1
  /\ loader_len \in 1 .. MaxLen
  /\ sampler = "GroupDistributedSampler"
  /\ eval_dataloader = [is_none |-> FALSE, len |-> 1]
  /\ logging_steps = 1
  /\ eval_steps = -1
  /\ save_steps = -1
  /\ cli_consumed_samples = 0
  /\ observable = {ObsLow, ObsHigh}
  /\ InitProgram
  /\ NoTensors

SpecCtor == InitCtor /\ [][Next]_vars

(* metrics: every batch mode, two observable metric triples, fresh and resumed runs *)
InitEma ==
  /\ is_general_preference = FALSE
  /\ value_head_dim = 2
  /\ add_prompt_head = FALSE
  /\ packing_samples \in BOOLEAN
  /\ args_add_pretrain_loss \in BOOLEAN
  /\ ptx_loss_coef = PtxLossCoefDefault
  /\ ptx_observable = {800}
  /\ margin_loss = FALSE
  /\ is_rank_0 = TRUE
  /\ use_wandb = FALSE
  /\ train_batch_size = 1
  /\ accumulated_gradient \in 1 .. MaxAccum
  /\ num_update_steps_per_epoch \in 1 .. MaxStepsPerEpoch
  /\ epochs \in 1 .. MaxEpochs
  /\ loader_len \in 1 .. MaxLen
  /\ sampler = "GroupDistributedSampler"
  /\ eval_dataloader = [is_none |-> FALSE, len |-> 1]
  /\ logging_steps = 1
  /\ eval_steps = -1
  /\ save_steps = -1
  /\ cli_consumed_samples \in 0 .. 1
  /\ observable = {ObsLow, ObsHigh}
  /\ InitProgram
  /\ NoTensors

SpecEma == InitEma /\ [][Next]_vars

(* cadence: every logging / evaluation / checkpoint interval and every kind of *)
(* validation loader train() can hand over (None, empty, non-empty)           *)
InitCadence ==
  /\ is_general_preference = FALSE
  /\ value_head_dim = 2
  /\ add_prompt_head = FALSE
  /\ \E m \in {<<FALSE, TRUE>>, <<TRUE, FALSE>>} :
       packing_samples = m[1] /\ args_add_pretrain_loss = m[2]
  /\ ptx_loss_coef = PtxLossCoefDefault
  /\ ptx_observable = {800}
  /\ margin_loss = FALSE
  /\ is_rank_0 = TRUE
  /\ use_wandb = FALSE
  /\ train_batch_size = 1
  /\ accumulated_gradient \in 1 .. MaxAccum
  /\ num_update_steps_per_epoch \in 1 .. MaxStepsPerEpoch
  /\ epochs \in 1 .. MaxEpochs
  /\ loader_len \in 1 .. MaxLen
  /\ sampler = "GroupDistributedSampler"
  /\ eval_dataloader \in EvalLoaders
  /\ logging_steps \in 1 .. MaxInterval
  /\ eval_steps \in StepsCfg
  /\ save_steps \in StepsCfg
  /\ cli_consumed_samples \in 0 .. 1
  /\ observable = {ObsHigh}
  /\ InitProgram
  /\ NoTensors

SpecCadence == InitCadence /\ [][Next]_vars

(* processes of a multi-process run: rank 0 and another rank, with and without *)
(* the experiment tracker, every interval, validation loaders of up to          *)
(* MaxEvalLen + 1 batches and two observable metric triples                     *)
InitRanks ==
  /\ is_general_preference = FALSE
  /\ value_head_dim = 2
  /\ add_prompt_head = FALSE
  /\ packing_samples = FALSE
  /\ args_add_pretrain_loss = TRUE
  /\ ptx_loss_coef = PtxLossCoefDefault
  /\ ptx_observable = {800}
  /\ margin_loss = FALSE
  /\ is_rank_0 \in BOOLEAN
  /\ use_wandb \in BOOLEAN
  /\ train_batch_size = 1
  /\ accumulated_gradient = 1
  /\ num_update_steps_per_epoch \in 1 .. MaxStepsPerEpoch
  /\ epochs = 1
  /\ loader_len \in 1 .. MaxLen
  /\ sampler = "GroupDistributedSampler"
  /\ eval_dataloader \in EvalLoaders \cup {[is_none |-> FALSE, len |-> MaxEvalLen + 1]}
  /\ logging_steps = 1
  /\ eval_steps \in StepsCfg
  /\ save_steps \in StepsCfg
  /\ cli_consumed_samples = 0
  /\ observable = {ObsLow, ObsHigh}
  /\ InitProgram
  /\ NoTensors

SpecRanks == InitRanks /\ [][Next]_vars

(* ------------------------------ claims -------------------------------- *)

Constructed == pc \notin {"new", "ctor_failed"}

(* C1: construction selects exactly one loss: PairWiseLoss when                *)
(* is_general_preference is false; GeneralPreferenceLoss for dimension 2       *)
(* without prompt head; HighDimGeneralPreferenceMoELoss whenever the prompt    *)
(* head is set; HighDimGeneralPreferenceLoss for dimension > 2 without prompt  *)
(* head; construction succeeds for every even dimension; and no step of fit    *)
(* or evaluate assigns loss_fn again.                                          *)
C1_LossDispatch ==
  /\ [](Constructed =>
          /\ loss_fn \in LossKinds
          /\ (~is_general_preference => loss_fn = "PairWiseLoss")
          /\ (is_general_preference /\ value_head_dim = 2 /\ ~add_prompt_head
                => loss_fn = "GeneralPreferenceLoss")
          /\ (is_general_preference /\ add_prompt_head
                => loss_fn = "HighDimGeneralPreferenceMoELoss")
          /\ (is_general_preference /\ value_head_dim > 2 /\ ~add_prompt_head
                => loss_fn = "HighDimGeneralPreferenceLoss"))
  /\ [](pc = "ctor_failed" => value_head_dim % 2 = 1)
  /\ [][Constructed => loss_fn' = loss_fn]_vars

C1_Witness ==
  /\ loss_fn = "HighDimGeneralPreferenceMoELoss"
  /\ value_head_dim = 2
  /\ event.backward = 1

(* C2: with is_general_preference and an odd value_head_dim the constructor    *)
(* fails on its assertion with no loss selected, with or without prompt head,  *)
(* and fit never runs.                                                         *)
C2_OddDimFails ==
  (is_general_preference /\ value_head_dim % 2 = 1) =>
     /\ pc \in {"new", "ctor_failed"}
     /\ loss_fn = "unset"
     /\ (pc = "ctor_failed" => error = "AssertionError")
     /\ step = 0
     /\ event = NoEvent

C2_Witness ==
  pc = "ctor_failed" /\ add_prompt_head /\ value_head_dim = 3

(* steps of fit, told apart by the program position *)
IsFitStart == pc = "constructed" /\ pc' = "epoch_loop"

IsEpochStart == pc = "epoch_loop" /\ pc' = "step_loop"

IsMicroBatch == pc = "step_loop" /\ event'.micro

BodyDone == event'.backward = 1

RECURSIVE Consecutive(_)
Consecutive(q) ==
  IF Len(q) <= 1 THEN TRUE ELSE q[2] = q[1] + 1 /\ Consecutive(Tail(q))

(* C3: step starts at (consumed_samples // train_batch_size) *               *)
(* accumulated_gradient + 1, grows by exactly 1 per completed micro-batch and *)
(* is changed by nothing else (no reset at an epoch boundary); the hook runs  *)
(* after a micro-batch iff step % accumulated_gradient = 0, with global_step  *)
(* = step // accumulated_gradient; the global steps handed to the hook are    *)
(* consecutive and increasing, so none is delivered twice.                    *)
C3_StepCounter ==
  /\ [](Consecutive(hook_steps))
  /\ [][ /\ (IsFitStart =>
               step' = (cli_consumed_samples \div train_batch_size)
                         * accumulated_gradient + 1)
         /\ (IsMicroBatch /\ BodyDone =>
               /\ (event'.hook <=> step % accumulated_gradient = 0)
               /\ (event'.hook =>
                     /\ event'.global_step = step \div accumulated_gradient
                     /\ hook_steps' = Append(hook_steps, step \div accumulated_gradient))
               /\ (~event'.hook => hook_steps' = hook_steps)
               /\ (pc' = "step_loop" => step' = step + 1))
         /\ (~IsFitStart /\ ~IsMicroBatch => step' = step /\ hook_steps' = hook_steps)
       ]_vars

C3_Witness ==
  /\ cli_consumed_samples > 0
  /\ accumulated_gradient = 2
  /\ epoch > start_epoch
  /\ Len(hook_steps) >= 3
  /\ event.hook

(* C4: fit recovers start_epoch = k // B // S and the intra-epoch offset      *)
(* k % (S * B) from consumed_samples = k; k = 640, B = 128, S = 50 gives      *)
(* start_epoch 0 and offset 640.                                              *)
C4_Resume ==
  /\ pc \in {"epoch_loop", "step_loop", "done", "crashed"} =>
       /\ start_epoch = (cli_consumed_samples \div train_batch_size)
                          \div num_update_steps_per_epoch
       /\ consumed_samples =
            cli_consumed_samples % (num_update_steps_per_epoch * train_batch_size)
  /\ RestoreEpoch(640, 128, 50) = 0
  /\ RestoreOffset(640, 128, 50) = 640

C4_Witness ==
  /\ pc = "epoch_loop"
  /\ train_batch_size = 2
  /\ start_epoch = 1
  /\ consumed_samples = 1

(* C5: every save_ckpt call made at global step g carries the tag             *)
(* "global_step<g>" and the client state {consumed_samples: g *               *)
(* train_batch_size}, where g is the global step of the micro-batch that      *)
(* triggered it.                                                              *)
C5_CheckpointState ==
  event.save_ckpt =>
    /\ event.hook
    /\ event.global_step = hook_steps[Len(hook_steps)]
    /\ event.global_step * accumulated_gradient = step - 1
    /\ event.tag = "global_step" \o ToString(event.global_step)
    /\ event.client_states = [consumed_samples |-> event.global_step * train_batch_size]
    /\ event.client_states.consumed_samples % train_batch_size = 0

C5_Witness ==
  /\ event.save_ckpt
  /\ event.tag = "global_step4"
  /\ event.client_states.consumed_samples = 8
  /\ accumulated_gradient = 2

EpochsBegun == IF pc = "step_loop" THEN epoch - start_epoch + 1 ELSE epoch - start_epoch

SetEpochCallsAsSpecified ==
  /\ Len(set_epoch_calls) = EpochsBegun
  /\ \A i \in 1 .. Len(set_epoch_calls) :
       /\ set_epoch_calls[i].epoch = start_epoch + i - 1
       /\ set_epoch_calls[i].consumed_samples =
            IF i = 1
            THEN cli_consumed_samples % (num_update_steps_per_epoch * train_batch_size)
            ELSE 0

(* C6 as stated: whatever sampler the train dataloader uses, set_epoch is     *)
(* called once at the start of every epoch, with the intra-epoch offset for   *)
(* the resumed epoch and 0 for every later epoch.                             *)
C6_AnySampler ==
  pc \in {"epoch_loop", "step_loop", "done"} => SetEpochCallsAsSpecified

(* C6 amended: this holds when the sampler is a GroupDistributedSampler; with *)
(* any other sampler fit never calls set_epoch.                               *)
C6_GroupSamplerOnly ==
  pc \in {"epoch_loop", "step_loop", "done"} =>
    IF sampler = "GroupDistributedSampler"
    THEN SetEpochCallsAsSpecified
    ELSE set_epoch_calls = <<>>

C6_Witness ==
  /\ sampler = "GroupDistributedSampler"
  /\ Len(set_epoch_calls) = 2
  /\ set_epoch_calls[1].consumed_samples = 3
  /\ set_epoch_calls[2].consumed_samples = 0
  /\ event.micro

FirstMicroBatchOfFreshRun ==
  /\ cli_consumed_samples = 0
  /\ epoch = 0
  /\ batch_idx = 1
  /\ event.micro
  /\ event.backward = 1

(* C7: each micro-batch applies m = 0.9 * m + 0.1 * x exactly once to each    *)
(* mean, so after the first micro-batch of a fresh run every reported mean is *)
(* 0.1 times the value observed in that micro-batch.                          *)
C7_SingleEmaUpdate ==
  /\ (event.micro /\ event.backward = 1 => event.ema_updates = 1)
  /\ (FirstMicroBatchOfFreshRun =>
        /\ 10 * logs_dict.loss_mean = logs_dict.loss
        /\ 10 * logs_dict.acc_mean = logs_dict.acc
        /\ 10 * logs_dict.prob_mean = logs_dict.probs)

Means == <<loss_mean, acc_mean, prob_mean>>

(* C8 as stated: the means are zeroed only when fit starts and keep their     *)
(* value across an epoch boundary.                                            *)
C8_MeansKeptAcrossEpochs ==
  [][IsEpochStart /\ epoch > start_epoch => Means' = Means]_vars

(* C8 amended: the means are set to 0 at the start of every epoch, so the     *)
(* first micro-batch of each epoch updates means of 0; between two            *)
(* micro-batches of one epoch they keep their value.                          *)
C8_MeansResetEveryEpoch ==
  [][ /\ (IsEpochStart => Means' = <<0, 0, 0>>)
      /\ (~IsEpochStart /\ ~IsMicroBatch => Means' = Means)
    ]_vars

C8_Witness ==
  /\ pc = "step_loop"
  /\ epoch > start_epoch
  /\ batch_idx = 0
  /\ Means = <<0, 0, 0>>
  /\ logs_dict.loss_mean > 0

(* C9: at every cadence event with global step g, logging (all_reduce)        *)
(* happens iff g % logging_steps = 0, evaluate is invoked iff                 *)
(* g % eval_steps = 0 and save_ckpt is invoked iff g % save_steps = 0, each   *)
(* independently of the others.                                               *)
C9_IndependentCadence ==
  event.hook =>
    /\ (event.all_reduce <=> PyMod(event.global_step, logging_steps) = 0)
    /\ (event.evaluate <=> PyMod(event.global_step, eval_steps) = 0)
    /\ (event.save_ckpt <=> PyMod(event.global_step, save_steps) = 0)

(* C10: with save_steps = -1 fit never invokes save_ckpt, because every       *)
(* global step that reaches the hook is >= 1.                                 *)
C10_NoSaveByDefault ==
  /\ \A i \in 1 .. Len(hook_steps) : hook_steps[i] >= 1
  /\ (save_steps \in {-1, Inf} => ~event.save_ckpt)

C10_Witness ==
  /\ save_steps = Inf
  /\ pc = "done"
  /\ cli_consumed_samples > 0
  /\ Len(hook_steps) >= 2

(* indices of the evaluate calls made during epoch e *)
EvalCallsIn(e) == {i \in DOMAIN eval_calls : eval_calls[i].epoch = e}

(* C11: with the default eval_steps (-1), every epoch that has run to its end  *)
(* made exactly one evaluate call, and made it on the epoch's last             *)
(* micro-batch, whatever the dataloader length and the accumulation factor.    *)
C11_EvalOncePerEpoch ==
  pc \in {"epoch_loop", "step_loop", "done"} =>
    \A e \in start_epoch .. (epoch - 1) :
      /\ Cardinality(EvalCallsIn(e)) = 1
      /\ \A i \in EvalCallsIn(e) :
           eval_calls[i].batch_idx
             = BatchesInEpoch(sampler, loader_len, e, start_epoch, consumed_samples,
                              train_batch_size, accumulated_gradient) - 1

(* C12: in the packed mode concatenated_forward splits the value rows at       *)
(* len(packed_seq_lens) // 2, whatever the individual lengths are; for an even *)
(* number of sequences the chosen and the rejected half have the same number   *)
(* of rows (<<10, 12, 10, 12>> gives index 2 and two rows each), and row i of  *)
(* the chosen half and row i of the rejected half are the values of sequence i *)
(* and of sequence n/2 + i.                                                    *)
C12_PackedSplit ==
  (fwd.called /\ packing_samples) =>
    LET n == Len(batch.reject_ids) IN
      /\ fwd.split = n \div 2
      /\ Len(fwd.chosen_rewards) = fwd.split
      /\ Len(fwd.rejected_rewards) = n - fwd.split
      /\ (n % 2 = 0 =>
            /\ Len(fwd.chosen_rewards) = Len(fwd.rejected_rewards)
            /\ \A i \in 1 .. (n \div 2) :
                 /\ fwd.chosen_rewards[i].sequence = i
                 /\ fwd.rejected_rewards[i].sequence = (n \div 2) + i)
      /\ (batch.reject_ids = <<10, 12, 10, 12>> =>
            /\ fwd.split = 2
            /\ Len(fwd.chosen_rewards) = 2
            /\ Len(fwd.rejected_rewards) = 2)

C12_Witness ==
  /\ fwd.called
  /\ packing_samples
  /\ batch.reject_ids = <<10, 12, 10, 12>>

(* row is orig left-padded with v to length n *)
IsLeftPadded(row, orig, n, v) ==
  /\ Len(row) = n
  /\ n >= Len(orig)
  /\ SubSeq(row, n - Len(orig) + 1, n) = orig
  /\ \A j \in 1 .. (n - Len(orig)) : row[j] = v

(* C13: in the non-packed mode concatenated_inputs returns the chosen rows     *)
(* followed by the rejected rows, every row of length max(chosen width,        *)
(* rejected width), the original row kept as the suffix and the prefix filled  *)
(* with pad_token_id in the ids and 0 in the masks; concatenated_forward       *)
(* splits the value rows at the chosen batch size, so chosen_rewards are the   *)
(* values of the chosen rows and rejected_rewards those of the rejected rows.  *)
C13_ConcatenatedInputs ==
  (fwd.called /\ ~packing_samples) =>
    LET nc == Len(batch.chosen_ids)
        nr == Len(batch.reject_ids)
        n == Max(Width(batch.chosen_ids), Width(batch.reject_ids))
    IN /\ Len(fwd.input_ids) = nc + nr
       /\ Len(fwd.att_masks) = nc + nr
       /\ \A i \in 1 .. nc :
            /\ IsLeftPadded(fwd.input_ids[i], batch.chosen_ids[i], n, batch.pad_token_id)
            /\ IsLeftPadded(fwd.att_masks[i], batch.c_mask[i], n, 0)
       /\ \A i \in 1 .. nr :
            /\ IsLeftPadded(fwd.input_ids[nc + i], batch.reject_ids[i], n,
                            batch.pad_token_id)
            /\ IsLeftPadded(fwd.att_masks[nc + i], batch.r_mask[i], n, 0)
       /\ fwd.split = nc
       /\ Len(fwd.chosen_rewards) = nc
       /\ Len(fwd.rejected_rewards) = nr
       /\ \A i \in 1 .. nc :
            fwd.chosen_rewards[i] = [ids |-> fwd.input_ids[i], mask |-> fwd.att_masks[i]]
       /\ \A i \in 1 .. nr :
            fwd.rejected_rewards[i] =
              [ids |-> fwd.input_ids[nc + i], mask |-> fwd.att_masks[nc + i]]

(* two short chosen rows and one longer rejected row went through the forward *)
C13_Witness ==
  /\ fwd.called
  /\ ~packing_samples
  /\ Len(batch.chosen_ids) = 2
  /\ Len(batch.reject_ids) = 1
  /\ Width(batch.chosen_ids) < Width(batch.reject_ids)
  /\ batch.pad_token_id # 0

(* C14: pad_to_length returns its input unchanged when the input is at least   *)
(* as long as the target; otherwise every row of the result has exactly the    *)
(* target length and is (target - length) copies of the fill value followed by *)
(* the original row; applying it again to its own result changes nothing.      *)
C14_PadToLength ==
  [][padded'.calls = padded.calls + 1 =>
       LET t == padded.tensor
           r == padded'.tensor
           n == padded.length
           v == padded.pad_value
       IN /\ (Width(t) >= n => r = t)
          /\ (Width(t) < n =>
                /\ Len(r) = Len(t)
                /\ \A i \in 1 .. Len(t) :
                     /\ IsLeftPadded(r[i], t[i], n, v)
                     /\ SubSeq(r[i], 1, n - Width(t)) = Fill(n - Width(t), v))
          /\ (padded.calls = 1 => r = t)]_vars

(* a two-row tensor shorter than the target was padded and padded again *)
C14_Witness ==
  /\ padded.calls = 2
  /\ Len(batch.chosen_ids) = 2
  /\ ~packing_samples
  /\ padded.length > Width(batch.chosen_ids)
  /\ padded.tensor # batch.chosen_ids
  /\ padded.pad_value # 0

(* C15: for every loss, batch mode and margin_loss setting, evaluate hands the  *)
(* model and the loss what fit hands them for a batch: return_output and the    *)
(* prompt hidden state (gathered at the same index) exactly when the loss is    *)
(* the mixture-of-experts one, and the margin exactly when margin_loss is set.  *)
C15_SameFeeds ==
  (event.evaluate /\ event.eval_batches > 0) =>
    /\ event.eval_feeds = event.fit_feeds
    /\ event.eval_feeds.return_output = IsMoE(loss_fn)
    /\ event.eval_feeds.hidden = IsMoE(loss_fn)
    /\ (event.eval_feeds.margin = "tensor") = margin_loss

(* C16: an evaluate call on a validation dataloader that yields no batch        *)
(* completes without raising.                                                   *)
C16_EmptyLoaderCompletes ==
  (event.evaluate /\ ~eval_dataloader.is_none /\ eval_dataloader.len = 0) =>
    /\ error = "none"
    /\ pc # "crashed"

(* C17: every evaluate call that completes leaves the model in training mode;   *)
(* every forward pass made inside evaluate runs with the model in evaluation    *)
(* mode; and every training micro-batch of fit, the first one after an          *)
(* evaluation included, runs with the model in training mode.                   *)
C17_ModelMode ==
  /\ []((event.evaluate /\ pc # "crashed") => model_mode = "train")
  /\ [](event.eval_batches > 0 => event.eval_mode = "eval")
  /\ [](event.micro => event.train_mode = "train")
  /\ [][IsMicroBatch => model_mode = "train"]_vars

(* the micro-batch that directly follows an evaluation of the same epoch *)
C17_Witness ==
  /\ event.micro
  /\ ~event.evaluate
  /\ pc = "step_loop"
  /\ eval_calls # <<>>
  /\ eval_calls[Len(eval_calls)].epoch = epoch
  /\ eval_calls[Len(eval_calls)].batch_idx = batch_idx - 2
  /\ eval_dataloader.len = 1
  /\ event.train_mode = "train"

(* C18: an evaluate call that completes returns, on the rank 0 process, the sum *)
(* of the per-batch losses divided by the number of batches of the dataloader   *)
(* it iterated; on any other process it returns no value.                       *)
C18_EvalReturn ==
  (event.evaluate /\ pc # "crashed") =>
    /\ Len(event.eval_losses) = eval_dataloader.len
    /\ event.eval_batches = eval_dataloader.len
    /\ IF is_rank_0
       THEN /\ event.eval_return.has_value
            /\ event.eval_return.value =
                 LossSum(event.eval_losses) \div Len(event.eval_losses)
       ELSE event.eval_return = NoReturn

(* rank 0 evaluated two batches with losses 2.0 and 1.0 and returned 1.5 *)
C18_Witness ==
  /\ event.evaluate
  /\ is_rank_0
  /\ event.eval_losses = <<2000, 1000>>
  /\ event.eval_return = [has_value |-> TRUE, value |-> 1500]

(* C19: with eval_dataloader = None evaluation is skipped: fit never calls      *)
(* evaluate on the missing dataloader and is not ended by it, whatever          *)
(* eval_steps is.                                                               *)
C19_NoneLoaderSkipped ==
  eval_dataloader.is_none =>
    /\ eval_calls = <<>>
    /\ ~event.evaluate
    /\ error # "AttributeError"

Collectives(calls) ==
  SelectSeq(calls, LAMBDA c : c \in {"all_reduce", "eval.all_reduce", "save_ckpt"})

(* the collectives the hook of global step g has to issue, as a function of the *)
(* arguments every process shares: neither the rank, nor the tracker, nor any   *)
(* metric value appears in it                                                   *)
CollectivesAt(g) ==
  LET evals == PyMod(g, eval_steps) = 0
      usable == ~eval_dataloader.is_none /\ eval_dataloader.len > 0
  IN (IF PyMod(g, logging_steps) = 0 THEN <<"all_reduce">> ELSE <<>>)
     \o (IF evals /\ usable THEN <<"eval.all_reduce">> ELSE <<>>)
     \o (IF (evals => usable) /\ PyMod(g, save_steps) = 0 THEN <<"save_ckpt">> ELSE <<>>)

(* C21: processes that run fit with the same arguments and the same number of  *)
(* micro-batches per epoch produce the same strictly increasing sequence of    *)
(* global_step values and checkpoint tags and issue the collectives (metrics   *)
(* all_reduce, all_reduce of evaluate, save_ckpt) at the same global steps in  *)
(* the same order: here, whatever the rank, the tracker and the metric values  *)
(* of a process, the global steps are the consecutive numbers after the        *)
(* restored one, the tag of a save is that of its global step, and the         *)
(* collectives of an iteration are CollectivesAt of its global step (none in   *)
(* an iteration without hook)                                                  *)
C21_SameCollectives ==
  /\ \A i \in 1 .. Len(hook_steps) :
       hook_steps[i] = (cli_consumed_samples \div train_batch_size) + i
  /\ event.hook =>
       /\ event.global_step = hook_steps[Len(hook_steps)]
       /\ Collectives(event.calls) = CollectivesAt(event.global_step)
       /\ event.save_ckpt => event.tag = Tag(event.global_step)
  /\ ~event.hook => Collectives(event.calls) = <<>>

C21_Witness ==
  /\ ~is_rank_0
  /\ event.hook
  /\ event.global_step = 2
  /\ Collectives(event.calls) = <<"all_reduce", "eval.all_reduce", "save_ckpt">>

(* C22: the loss passed to strategy.backward in a micro-batch is               *)
(* (1 - ptx_loss_coef) * preference_loss + ptx_loss_coef * auxiliary_loss when *)
(* the auxiliary loss is enabled (args.add_pretrain_loss, the flag fit tests)  *)
(* and exactly the preference loss when it is not; the preference loss used is *)
(* the one computed in that same micro-batch, the one its logs_dict reports    *)
C22_BackwardLoss ==
  event.backward = 1 =>
    /\ event.preference_loss = logs_dict.loss
    /\ args_add_pretrain_loss =>
         1000 * event.loss = (1000 - ptx_loss_coef) * event.preference_loss
                             + ptx_loss_coef * event.ptx_loss
    /\ ~args_add_pretrain_loss => event.loss = event.preference_loss

C22_Witness ==
  /\ event.backward = 1
  /\ args_add_pretrain_loss
  /\ ptx_loss_coef = 250
  /\ event.preference_loss = 2000
  /\ event.ptx_loss = 800
  /\ event.loss = 1700

(* C27: if add_pretrain_loss is requested but ptx_loss_coef <= 0 the trainer   *)
(* treats the auxiliary loss as disabled: fit makes no auxiliary               *)
(* language-model forward pass and backpropagates exactly the preference loss  *)
C27_NonPositiveCoefDisables ==
  (args_add_pretrain_loss /\ ptx_loss_coef <= 0 /\ event.backward = 1) =>
    /\ ~self_add_pretrain_loss
    /\ event.ptx_forwards = 0
    /\ event.loss = event.preference_loss

(* C24: for every combination of packing_samples, add_pretrain_loss and loss   *)
(* variant, one iteration of the step loop of fit reaches strategy.backward    *)
(* and strategy.optimizer_step: no iteration reads a batch variable that only  *)
(* the other batch mode's unpacking assigns                                    *)
C24_EveryIterationReachesBackward ==
  event.micro =>
    /\ error # "UnboundLocalError"
    /\ SelectSeq(event.calls, LAMBDA c : c \in {"backward", "optimizer_step"})
         = <<"backward", "optimizer_step">>

(* the block of one fit iteration a call belongs to: 1 backward, 2 optimizer   *)
(* step, 3 logging, 4 evaluation, 5 checkpoint save                            *)
Phase(c) ==
  CASE c = "backward" -> 1
    [] c = "optimizer_step" -> 2
    [] c = "all_reduce" -> 3
    [] c \in {"evaluate", "model.eval", "eval.all_reduce", "model.train"} -> 4
    [] c = "save_ckpt" -> 5

(* the calls of an iteration without the tracker's, which logging and evaluation share *)
Phased(calls) == SelectSeq(calls, LAMBDA c : c # "wandb.log")

(* the calls of one iteration in the order fit writes them: backward, optimizer *)
(* step, then for a cadence event logging, evaluation, checkpoint save, the    *)
(* save after evaluate has returned                                            *)
CallsInOrder(e) ==
  LET calls == Phased(e.calls) IN
  /\ Len(calls) >= 2
  /\ calls[1] = "backward"
  /\ calls[2] = "optimizer_step"
  /\ \A i \in 3 .. Len(calls) : Phase(calls[i]) >= 3
  /\ \A i \in 1 .. Len(calls), j \in 1 .. Len(calls) :
       i < j => Phase(calls[i]) <= Phase(calls[j])
  /\ ~e.hook => Len(calls) = 2
  /\ e.save_ckpt =>
       /\ calls[Len(calls)] = "save_ckpt"
       /\ e.tag = Tag(e.global_step)
       /\ e.evaluate => \E i \in 1 .. Len(calls) - 1 : calls[i] = "model.train"

(* C25: in every micro-batch of fit strategy.backward is invoked exactly once  *)
(* and then strategy.optimizer_step exactly once, both before any logging,     *)
(* evaluation or checkpoint of that step; within a cadence event the order is  *)
(* logging, evaluation, checkpoint save, so the checkpoint tagged global_step  *)
(* g is written only after the optimizer step and the evaluation of step g     *)
(* have completed                                                              *)
C25_EveryMicroBatchInOrder == event.micro => CallsInOrder(event)

(* the order holds in every iteration that gets as far as strategy.backward *)
CallsInOrderOnceReached == event.backward = 1 => CallsInOrder(event)

(* fit is over, by returning or by raising *)
FitOver == pc \in {"done", "crashed"}

(* what a fit that returns has done: max(0, epochs - start_epoch) passes over  *)
(* the train dataloader, then one finish of the tracker where there is one,    *)
(* and nothing at all when resumed at or past the end of the schedule          *)
ReturnsAfterAllPasses ==
  pc = "done" =>
    /\ epoch - start_epoch = Max(0, epochs - start_epoch)
    /\ Len(SelectSeq(wandb_calls, LAMBDA c : c = "finish"))
         = IF TrackerCall(self_wandb, is_rank_0) THEN 1 ELSE 0
    /\ wandb_calls # <<>> => wandb_calls[Len(wandb_calls)] = "finish"
    /\ cli_consumed_samples
         >= epochs * num_update_steps_per_epoch * train_batch_size =>
           /\ step = RestoreStep(cli_consumed_samples, train_batch_size,
                                 accumulated_gradient)
           /\ hook_steps = <<>>
           /\ eval_calls = <<>>

(* C28: given finite dataloaders and collaborators that return, fit terminates *)
(* after exactly max(0, epochs - start_epoch) passes over the train dataloader *)
(* and then finishes the experiment tracker once on rank 0; resumed with       *)
(* consumed_samples >= epochs * steps_per_epoch * train_batch_size it performs *)
(* no micro-batch, no evaluation and no checkpoint save                        *)
C28_TerminatesAfterAllPasses ==
  /\ FitOver => pc = "done"
  /\ ReturnsAfterAllPasses

(* C26: in fit with a mixture-of-experts loss on the non-packed path the       *)
(* gating input of chosen sample i is the hidden state of row i of the chosen  *)
(* half at position L - chosen_response_len[i] - 1, L the padded length; as    *)
(* the padding is on the left only, that state stands on the token at position *)
(* len_chosen - chosen_response_len[i] - 1 of the chosen sequence before       *)
(* padding; and the index lies in [0, L - 1] whenever                          *)
(* 0 <= chosen_response_len[i] <= L - 1                                        *)
C26_GatingInput ==
  gate.called =>
    LET L == Width(fwd.input_ids)
        len_chosen == Width(batch.chosen_ids)
        crl == gate.chosen_response_len
    IN \A i \in 1 .. Len(batch.chosen_ids) :
         /\ gate.index[i] = L - crl[i] - 1
         /\ (0 <= crl[i] /\ crl[i] <= L - 1) => gate.index[i] \in 0 .. L - 1
         /\ gate.raised => \E k \in 1 .. Len(batch.chosen_ids) : crl[k] > L - 1
         /\ ~gate.raised =>
              /\ gate.prompt_hidden_state[i].row = i
              /\ gate.prompt_hidden_state[i].position = L - crl[i] - 1
              /\ gate.prompt_hidden_state[i].position - (L - len_chosen)
                   = len_chosen - crl[i] - 1
              /\ len_chosen - crl[i] - 1 >= 0 =>
                   gate.prompt_hidden_state[i].token
                     = batch.chosen_ids[i][len_chosen - crl[i] - 1 + 1]

C26_Witness ==
  /\ gate.called
  /\ ~gate.raised
  /\ Len(batch.chosen_ids) = 2
  /\ Width(batch.chosen_ids) = 1
  /\ Width(fwd.input_ids) = 2
  /\ gate.chosen_response_len = <<0, 0>>
  /\ gate.index = <<1, 1>>
  /\ gate.prompt_hidden_state[1].token = batch.chosen_ids[1][1]

(* global steps lo + 1 .. hi in order *)
StepsFrom(lo, hi) == [i \in 1 .. (hi - lo) |-> lo + i]

(* the last global step of a run from consumed_samples = 0: one per            *)
(* accumulated_gradient micro-batches of epochs passes over the dataloader     *)
FinalGlobalStep == (epochs * loader_len) \div accumulated_gradient

(* the epoch a run from consumed_samples = 0 is in when it has made g updates, *)
(* the next epoch when they end an epoch                                       *)
EpochAfter(g) == (g * accumulated_gradient) \div loader_len

(* what a run resumed from the checkpoint of global step g has to do to        *)
(* continue the uninterrupted run                                              *)
ResumesExactly(g) ==
  /\ start_epoch = EpochAfter(g)
  /\ step >= g * accumulated_gradient + 1
  /\ hook_steps # <<>> => hook_steps[1] = g + 1
  /\ (event.hook /\ Len(hook_steps) = 1) =>
       event.global_step = g + 1 /\ batch_idx <= accumulated_gradient
  /\ pc = "done" => hook_steps = StepsFrom(g, FinalGlobalStep)

(* a checkpoint of an uninterrupted run is loaded: consumed_samples is         *)
(* g * train_batch_size for a global step g that run reaches                   *)
ResumedFromCheckpoint ==
  /\ pc \in {"epoch_loop", "step_loop", "done"}
  /\ cli_consumed_samples % train_batch_size = 0
  /\ cli_consumed_samples \div train_batch_size \in 1 .. FinalGlobalStep

(* C23: a run checkpointed at global_step g (consumed_samples = g *            *)
(* train_batch_size) and resumed continues where an uninterrupted run would    *)
(* be: its first cadence event carries g + 1 after accumulated_gradient        *)
(* micro-batches, it starts in the epoch the uninterrupted run would be in,    *)
(* and it returns at the same final global_step after the same sequence of     *)
(* global steps (here with the sampler that is given the offset)               *)
C23_ExactResume ==
  (ResumedFromCheckpoint /\ CallsSetEpoch(sampler)) =>
    ResumesExactly(cli_consumed_samples \div train_batch_size)

(* the resume is exact when the dataloader yields exactly                      *)
(* num_update_steps_per_epoch * accumulated_gradient micro-batches per epoch   *)
ExactResumeOnAlignedEpochs ==
  (ResumedFromCheckpoint /\ CallsSetEpoch(sampler)
   /\ loader_len = num_update_steps_per_epoch * accumulated_gradient) =>
    ResumesExactly(cli_consumed_samples \div train_batch_size)

====
